---- MODULE Spec2Model ----
(***************************************************************************)
(* Model of scripts/enrichment/ncit_def_extractor.py: main() validates the *)
(* source path, migrate() loads an RDF graph, rewrites every subject that  *)
(* the store yields for rdfs:seeAlso, and serializes the graph.            *)
(*                                                                         *)
(* The graph is an insertion-ordered sequence of triples without           *)
(* duplicates: the set of triples is its range, and the order in which the *)
(* store enumerates the objects of one (subject, predicate) pair is the    *)
(* order of the sequence.  The order of the loaded triples is an input.    *)
(***************************************************************************)
EXTENDS Integers, Sequences, FiniteSets, TLC

VARIABLES
    pc,              \* position in main()/migrate()
    exit_code,       \* -1 while running, else the process exit status
    status,          \* which exit point was taken
    g,               \* the rdflib Graph of migrate(), see above
    snapshot,        \* store flavour: g.subjects() iterates a copy (TRUE) or the live index
    pending,         \* see-also triples the generator g.subjects() has not passed yet
    cls,             \* loop variable of migrate()
    ncit_raw,        \* text read at line 76
    xref_lit,        \* literal built at line 78
    coms,            \* list built at line 81
    name_lit,        \* coms_sorted[0]
    def_lit,         \* coms_sorted[-1]
    processed_count, \* counter of line 72/96
    bnodes,          \* number of anonymous nodes handed out so far
    out_file,        \* the destination file
    parsed,          \* history: g.parse() returned
    loaded,          \* history: the graph right after g.parse()
    log,             \* history: one record per loop iteration
    grafted          \* history: graph before the graft call that ran last

vars == <<pc, exit_code, status, g, snapshot, pending, cls, ncit_raw, xref_lit,
          coms, name_lit, def_lit, processed_count, bnodes, out_file, parsed,
          loaded, log, grafted>>

---------------------------------------------------------------------------
(* Bounds of the model *)

\* most see-also triples one class has in a loaded graph
MaxSeeAlso == 2
\* most comment triples one class has in a loaded graph
MaxComments == 4
---------------------------------------------------------------------------
(* RDF terms: a kind and the text str() gives *)

URIRef(t) == [kind |-> "uri", txt |-> t]
\* Literal(text): a plain literal, no language tag, no datatype
Literal(t) == [kind |-> "plain", txt |-> t]
\* a literal with a language tag or a datatype; never equal to a plain one
TaggedLiteral(t) == [kind |-> "tagged", txt |-> t]
\* the n-th anonymous node
BNode(n) == [kind |-> "bnode", txt |-> [i \in 1..n |-> "_"]]

str(term) == term.txt

RDFS_seeAlso == URIRef(<<"rdfs:seeAlso">>)
RDFS_comment == URIRef(<<"rdfs:comment">>)
RDF_type == URIRef(<<"rdf:type">>)
OWL_Axiom == URIRef(<<"owl:Axiom">>)
OWL_annotatedSource == URIRef(<<"owl:annotatedSource">>)
OWL_annotatedProperty == URIRef(<<"owl:annotatedProperty">>)
OWL_annotatedTarget == URIRef(<<"owl:annotatedTarget">>)
IAO_DEF == URIRef(<<"obo:IAO_0000115">>)
HAS_SYN == URIRef(<<"oio:hasSynonym">>)
HAS_XREF == URIRef(<<"oio:hasDbXref">>)

\* the text "NCIT:" of line 77
NCIT_PREFIX == <<"N", "C", "I", "T", ":">>

---------------------------------------------------------------------------
(* The store *)

Range(q) == {q[i] : i \in 1..Len(q)}

\* the graph as a set of triples
Triples(gr) == Range(gr)

\* Graph.add: set semantics, a present triple is not added again
add(gr, t) == IF t \in Range(gr) THEN gr ELSE Append(gr, t)

\* Graph.remove of a fully bound triple: a no-op when it is absent
remove(gr, t) == SelectSeq(gr, LAMBDA x : x # t)

\* Graph.objects(s, p) as a list, in the store's enumeration order
objects(gr, s, p) ==
    LET hit == SelectSeq(gr, LAMBDA x : x[1] = s /\ x[2] = p)
    IN  [i \in 1..Len(hit) |-> hit[i][3]]

\* the triples Graph.subjects(p, None) walks over: one per matching triple
subjects(gr, p) == {x \in Range(gr) : x[2] = p}

\* str.startswith
startswith(s, prefix) ==
    /\ Len(s) >= Len(prefix)
    /\ SubSeq(s, 1, Len(prefix)) = prefix

\* variant of line 77 that prepends the prefix without looking
ncit_id_always(raw) == NCIT_PREFIX \o raw

\* line 77
ncit_id(raw) == IF startswith(raw, NCIT_PREFIX) THEN raw ELSE NCIT_PREFIX \o raw

\* variant of the sort that puts a later element before its equals
RECURSIVE insert_unstable(_, _)
insert_unstable(q, x) ==
    IF q = <<>> THEN <<x>>
    ELSE IF Len(str(x)) <= Len(str(Head(q))) THEN <<x>> \o q
    ELSE <<Head(q)>> \o insert_unstable(Tail(q), x)

\* sorted(list, key=len(str(.))): stable insertion sort
RECURSIVE insert(_, _)
insert(q, x) ==
    IF q = <<>> THEN <<x>>
    ELSE IF Len(str(x)) < Len(str(Head(q))) THEN <<x>> \o q
    ELSE <<Head(q)>> \o insert(Tail(q), x)

RECURSIVE sorted(_)
sorted(q) ==
    IF q = <<>> THEN <<>>
    ELSE insert(sorted(SubSeq(q, 1, Len(q) - 1)), q[Len(q)])

---------------------------------------------------------------------------
(* graft_axiom, lines 31-52; ax is the node BNode() returns at line 47 *)

\* variant of graft_axiom that leaves the cross-reference out
graft_axiom_no_xref(gr, subj, prop, tgt_literal, xref_literal, ax) ==
    LET g1 == add(gr, <<subj, prop, tgt_literal>>)
        g2 == add(g1, <<ax, RDF_type, OWL_Axiom>>)
        g3 == add(g2, <<ax, OWL_annotatedSource, subj>>)
        g4 == add(g3, <<ax, OWL_annotatedProperty, prop>>)
    IN  add(g4, <<ax, OWL_annotatedTarget, tgt_literal>>)

graft_axiom(gr, subj, prop, tgt_literal, xref_literal, ax) ==
    LET g1 == add(gr, <<subj, prop, tgt_literal>>)
        g2 == add(g1, <<ax, RDF_type, OWL_Axiom>>)
        g3 == add(g2, <<ax, OWL_annotatedSource, subj>>)
        g4 == add(g3, <<ax, OWL_annotatedProperty, prop>>)
        g5 == add(g4, <<ax, OWL_annotatedTarget, tgt_literal>>)
    IN  add(g5, <<ax, HAS_XREF, xref_literal>>)

\* variant of the cleanup that removes every see-also triple of the class
cleanup_all(gr, c, name, def, raw) ==
    SelectSeq(gr, LAMBDA x :
        /\ x # <<c, RDFS_comment, name>>
        /\ x # <<c, RDFS_comment, def>>
        /\ ~(x[1] = c /\ x[2] = RDFS_seeAlso))

\* lines 92-94: the three removals of one processed class
cleanup(gr, c, name, def, raw) ==
    remove(remove(remove(gr, <<c, RDFS_comment, name>>),
                  <<c, RDFS_comment, def>>),
           <<c, RDFS_seeAlso, Literal(raw)>>)

\* line 85
pick_name(coms_sorted) == coms_sorted[1]
pick_def(coms_sorted) == coms_sorted[Len(coms_sorted)]

\* variant of line 82 that lets a single comment through
too_few_one(cs) == Len(cs) < 1

\* line 82: the class is skipped
too_few(cs) == Len(cs) < 2

---------------------------------------------------------------------------
(* Inputs: the graphs g.parse() can produce *)

EX_C1 == URIRef(<<"ex:C1">>)
EX_C2 == URIRef(<<"ex:C2">>)
EX_C3 == URIRef(<<"ex:C3">>)

\* the text of an unprefixed NCIT code
RAW_ID == <<"C", "9">>
SeeAlsoObjs == {Literal(RAW_ID), Literal(NCIT_PREFIX \o RAW_ID), TaggedLiteral(RAW_ID)}

\* the k-th comment literal of a class, of the given text length: the texts
\* of one class differ in their first character
Tags == <<"a", "b", "c", "d", "e", "f">>
Com(k, len) == Literal([i \in 1..len |-> IF i = 1 THEN Tags[k] ELSE "x"])
CommentLens == {1, 3}

\* the sequences without repetition over S, of length at most n
InjSeqs(S, n) ==
    {q \in UNION {[1..k -> S] : k \in 0..n} :
        \A i, j \in 1..Len(q) : i # j => q[i] # q[j]}

\* the comment lists of a class: every sequence of lengths, up to n comments
CommentLists(n) ==
    {[k \in 1..Len(lens) |-> Com(k, lens[k])] :
        lens \in UNION {[1..m -> CommentLens] : m \in 0..n}}

ClassTriples(c, sa, cm) ==
    [i \in 1..Len(sa) |-> <<c, RDFS_seeAlso, sa[i]>>]
        \o [i \in 1..Len(cm) |-> <<c, RDFS_comment, cm[i]>>]

\* what the file holds besides the class C1: nothing; a class with one
\* comment; a class whose see-also is an identifier; a class that already
\* has its definition triple; a class without see-also
OtherTriples ==
    {<<>>,
     ClassTriples(EX_C2, <<Literal(RAW_ID)>>, <<Com(1, 3)>>),
     ClassTriples(EX_C2, <<URIRef(RAW_ID)>>, <<Com(1, 1), Com(2, 3)>>),
     ClassTriples(EX_C2, <<Literal(RAW_ID)>>, <<Com(1, 1), Com(2, 3)>>)
        \o <<<<EX_C2, IAO_DEF, Com(2, 3)>>>>,
     ClassTriples(EX_C3, <<>>, <<Com(1, 1), Com(2, 3)>>)}

LoadableGraphs ==
    {ClassTriples(EX_C1, sa, cm) \o other :
        sa \in InjSeqs(SeeAlsoObjs, MaxSeeAlso),
        cm \in CommentLists(MaxComments),
        other \in OtherTriples}

---------------------------------------------------------------------------
(* State machine *)

NoTerm == [kind |-> "none", txt |-> <<>>]
Untouched == [state |-> "untouched", triples |-> {}]

Init ==
    /\ pc = "main"
    /\ exit_code = -1
    /\ status = "running"
    /\ g = <<>>
    /\ snapshot = FALSE
    /\ pending = {}
    /\ cls = NoTerm
    /\ ncit_raw = <<>>
    /\ xref_lit = NoTerm
    /\ coms = <<>>
    /\ name_lit = NoTerm
    /\ def_lit = NoTerm
    /\ processed_count = 0
    /\ bnodes = 0
    /\ out_file = Untouched
    /\ parsed = FALSE
    /\ loaded = <<>>
    /\ log = <<>>
    /\ grafted = <<>>

Exit(code, why) ==
    /\ pc' = "exit"
    /\ exit_code' = code
    /\ status' = why

locals == <<cls, ncit_raw, xref_lit, coms, name_lit, def_lit>>

\* main, lines 144-146
MainMissing ==
    /\ pc = "main"
    /\ Exit(1, "missing")
    /\ UNCHANGED <<parsed, g, snapshot, pending, locals, processed_count, bnodes,
                   out_file, loaded, log, grafted>>

\* main, lines 148-150
MainNotFile ==
    /\ pc = "main"
    /\ Exit(1, "not_file")
    /\ UNCHANGED <<parsed, g, snapshot, pending, locals, processed_count, bnodes,
                   out_file, loaded, log, grafted>>

\* main, lines 153-160: the path is a regular file, migrate is entered
MainRun ==
    /\ pc = "main"
    /\ pc' = "parse"
    /\ UNCHANGED <<parsed, exit_code, status, g, snapshot, pending, locals,
                   processed_count, bnodes, out_file, loaded, log, grafted>>

\* variant of lines 68-70 without the sys.exit: the run goes on
LoadFail_goes_on ==
    /\ pc = "parse"
    /\ pc' = "loop"
    /\ status' = "load_failed"
    /\ UNCHANGED <<parsed, exit_code, g, snapshot, pending, locals,
                   processed_count, bnodes, out_file, loaded, log, grafted>>

\* migrate, lines 68-70: g.parse raised
LoadFail ==
    /\ pc = "parse"
    /\ Exit(1, "load_failed")
    /\ UNCHANGED <<parsed, g, snapshot, pending, locals, processed_count, bnodes,
                   out_file, loaded, log, grafted>>

\* migrate, lines 63-74: g.parse returned; the generator of line 74 is created
LoadOk ==
    /\ pc = "parse"
    /\ \E gr \in LoadableGraphs, snap \in BOOLEAN :
        /\ g' = gr
        /\ loaded' = gr
        /\ parsed' = TRUE
        /\ snapshot' = snap
        /\ pending' = subjects(gr, RDFS_seeAlso)
    /\ pc' = "loop"
    /\ UNCHANGED <<exit_code, status, locals, processed_count, bnodes,
                   out_file, log, grafted>>

\* what the generator of line 74 can yield next: a copy taken when the loop
\* started still holds removed triples, the live index does not
Yieldable ==
    IF snapshot THEN pending ELSE pending \cap subjects(g, RDFS_seeAlso)

\* one record of the history of the loop
Visit(c, raw_obj, cs, done) ==
    [cls |-> c, raw |-> raw_obj, coms |-> cs, processed |-> done,
     name |-> name_lit', def |-> def_lit']

\* migrate, lines 74-85: the next subject is taken, its see-also object and
\* its comments are read; with fewer than two comments the loop goes on
LoopNext ==
    /\ pc = "loop"
    /\ \E t \in Yieldable :
        LET c == t[1]
            seen == objects(g, c, RDFS_seeAlso)
            cs == objects(g, c, RDFS_comment)
        IN  /\ pending' = pending \ {t}
            /\ cls' = c
            /\ IF seen = <<>>
               THEN \* next() on an empty generator: StopIteration, uncaught
                    /\ Exit(1, "stop_iteration")
                    /\ UNCHANGED <<ncit_raw, xref_lit, coms, name_lit, def_lit, log>>
               ELSE /\ ncit_raw' = str(Head(seen))
                    /\ xref_lit' = Literal(ncit_id(str(Head(seen))))
                    /\ coms' = cs
                    /\ IF too_few(cs)
                       THEN /\ pc' = "loop"
                            /\ UNCHANGED <<name_lit, def_lit>>
                            /\ log' = Append(log, Visit(c, Head(seen), cs, FALSE))
                       ELSE /\ pc' = "graft_def"
                            /\ name_lit' = pick_name(sorted(cs))
                            /\ def_lit' = pick_def(sorted(cs))
                            /\ log' = Append(log, Visit(c, Head(seen), cs, TRUE))
                    /\ UNCHANGED <<exit_code, status>>
    /\ UNCHANGED <<parsed, g, snapshot, processed_count, bnodes, out_file, loaded, grafted>>

\* migrate, line 88
GraftDef ==
    /\ pc = "graft_def"
    /\ g' = graft_axiom(g, cls, IAO_DEF, def_lit, xref_lit, BNode(bnodes + 1))
    /\ bnodes' = bnodes + 1
    /\ grafted' = g
    /\ pc' = "graft_syn"
    /\ UNCHANGED <<parsed, exit_code, status, snapshot, pending, locals,
                   processed_count, out_file, loaded, log>>

\* migrate, line 89
GraftSyn ==
    /\ pc = "graft_syn"
    /\ g' = graft_axiom(g, cls, HAS_SYN, name_lit, xref_lit, BNode(bnodes + 1))
    /\ bnodes' = bnodes + 1
    /\ grafted' = g
    /\ pc' = "cleanup"
    /\ UNCHANGED <<parsed, exit_code, status, snapshot, pending, locals,
                   processed_count, out_file, loaded, log>>

\* migrate, lines 92-96
Cleanup ==
    /\ pc = "cleanup"
    /\ g' = cleanup(g, cls, name_lit, def_lit, ncit_raw)
    /\ processed_count' = processed_count + 1
    /\ pc' = "loop"
    /\ UNCHANGED <<parsed, exit_code, status, snapshot, pending, locals, bnodes,
                   out_file, loaded, log, grafted>>

\* migrate, lines 98-101: the generator is exhausted, the graph is written
SaveOk ==
    /\ pc = "loop"
    /\ Yieldable = {}
    /\ out_file' = [state |-> "written", triples |-> Triples(g)]
    /\ Exit(0, "saved")
    /\ UNCHANGED <<parsed, g, snapshot, pending, locals, processed_count, bnodes,
                   loaded, log, grafted>>

\* migrate, lines 102-104: g.serialize raised, before or after it opened the file
SaveFail ==
    /\ pc = "loop"
    /\ Yieldable = {}
    /\ \E f \in {out_file, [state |-> "partial", triples |-> {}]} : out_file' = f
    /\ Exit(1, "save_failed")
    /\ UNCHANGED <<parsed, g, snapshot, pending, locals, processed_count, bnodes,
                   loaded, log, grafted>>

Next ==
    \/ MainMissing
    \/ MainNotFile
    \/ MainRun
    \/ LoadFail
    \/ LoadOk
    \/ LoopNext
    \/ GraftDef
    \/ GraftSyn
    \/ Cleanup
    \/ SaveOk
    \/ SaveFail

Spec == Init /\ [][Next]_vars

---------------------------------------------------------------------------
(* Vocabulary of the properties *)

LoadedSeeAlso(c) == objects(loaded, c, RDFS_seeAlso)
LoadedComments(c) == objects(loaded, c, RDFS_comment)
LoadedSubjects == {t[1] : t \in Triples(loaded)}

\* the pass over the subjects is over
LoopDone == pc = "exit" /\ status \in {"saved", "save_failed"}
Saved == pc = "exit" /\ status = "saved"

Nodes(gr) == {t[1] : t \in Triples(gr)} \cup {t[3] : t \in Triples(gr)}
SubjectTriples(gr, c) == {t \in Triples(gr) : t[1] = c}
AxiomsOf(gr, c) ==
    {t[1] : t \in {u \in Triples(gr) : u[2] = OWL_annotatedSource /\ u[3] = c}}

\* the five triples that describe the reified axiom a
AxiomTriples(a, s, p, l, x) ==
    {<<a, RDF_type, OWL_Axiom>>, <<a, OWL_annotatedSource, s>>,
     <<a, OWL_annotatedProperty, p>>, <<a, OWL_annotatedTarget, l>>,
     <<a, HAS_XREF, x>>}

MinLen(cs) == CHOOSE n \in {Len(str(x)) : x \in Range(cs)} :
                  \A x \in Range(cs) : n <= Len(str(x))
MaxLen(cs) == CHOOSE n \in {Len(str(x)) : x \in Range(cs)} :
                  \A x \in Range(cs) : n >= Len(str(x))

\* the cross-reference text the specification asks for
Normalized(raw) ==
    IF Len(raw) >= 5 /\ SubSeq(raw, 1, 5) = <<"N", "C", "I", "T", ":">>
    THEN raw
    ELSE <<"N", "C", "I", "T", ":">> \o raw

---------------------------------------------------------------------------
(* C1: every class loaded with a see-also triple and at least two comments  *)
(* ends with its definition triple (a longest comment), its synonym triple  *)
(* (a shortest comment) and two distinct new axiom nodes, each carrying the *)
(* normalized first see-also text, whose prefix is never doubled.           *)
C1_Migrated ==
    LoopDone =>
        \A c \in LoadedSubjects :
            (LoadedSeeAlso(c) # <<>> /\ Len(LoadedComments(c)) >= 2) =>
                LET cm == LoadedComments(c)
                    x == Literal(Normalized(str(Head(LoadedSeeAlso(c)))))
                    fresh == Nodes(g) \ Nodes(loaded)
                IN  /\ ~startswith(str(x), NCIT_PREFIX \o NCIT_PREFIX)
                    /\ \E d, n \in Range(cm) :
                        /\ Len(str(d)) = MaxLen(cm)
                        /\ Len(str(n)) = MinLen(cm)
                        /\ <<c, IAO_DEF, d>> \in Triples(g)
                        /\ <<c, HAS_SYN, n>> \in Triples(g)
                        /\ \E a1, a2 \in fresh :
                            /\ a1 # a2
                            /\ a1.kind = "bnode" /\ a2.kind = "bnode"
                            /\ AxiomTriples(a1, c, IAO_DEF, d, x) \subseteq Triples(g)
                            /\ AxiomTriples(a2, c, HAS_SYN, n, x) \subseteq Triples(g)
                    /\ Saved => out_file.triples = Triples(g)

\* a saved run over a class whose first see-also text already has the prefix
C1_Witness ==
    /\ Saved
    /\ LoadedSeeAlso(EX_C1) # <<>>
    /\ Head(LoadedSeeAlso(EX_C1)) = Literal(NCIT_PREFIX \o RAW_ID)
    /\ Len(LoadedComments(EX_C1)) = 2
    /\ processed_count = 1

---------------------------------------------------------------------------
---------------------------------------------------------------------------
(* C6: the name is the first enumerated comment of minimum length, the      *)
(* definition the last enumerated comment of maximum length; they are two   *)
(* different comments, and of two comments of equal length the first is the *)
(* name and the second the definition.                                      *)
Index(cs, x) == CHOOSE i \in 1..Len(cs) : cs[i] = x

C6_TieBreak ==
    \A k \in 1..Len(log) :
        log[k].processed =>
            LET cs == log[k].coms
                n == log[k].name
                d == log[k].def
            IN  /\ n \in Range(cs) /\ d \in Range(cs)
                /\ Len(str(n)) = MinLen(cs)
                /\ Len(str(d)) = MaxLen(cs)
                /\ \A i \in 1..Len(cs) :
                    /\ Len(str(cs[i])) = MinLen(cs) => Index(cs, n) <= i
                    /\ Len(str(cs[i])) = MaxLen(cs) => Index(cs, d) >= i
                /\ n # d
                /\ (Len(cs) = 2 /\ Len(str(cs[1])) = Len(str(cs[2]))) =>
                        (n = cs[1] /\ d = cs[2])

\* a class with two comments of equal length was processed
C6_Witness ==
    \E k \in 1..Len(log) :
        /\ log[k].processed
        /\ Len(log[k].coms) = 2
        /\ Len(str(log[k].coms[1])) = Len(str(log[k].coms[2]))
        /\ pc = "loop"

---------------------------------------------------------------------------
(* C7: a missing source, a source that is no file and a failed load end the *)
(* run with exit code 1, no class rewritten and the output file untouched;  *)
(* the file is touched only after a successful load and a complete pass; a  *)
(* failed write exits with 1, a successful write with 0.                    *)
C7_FatalPaths ==
    /\ status \in {"missing", "not_file", "load_failed"} =>
        /\ pc = "exit" /\ exit_code = 1
        /\ out_file = Untouched
        /\ g = <<>> /\ log = <<>> /\ processed_count = 0
    /\ out_file # Untouched =>
        /\ parsed
        /\ LoopDone
        /\ Yieldable = {}
    /\ status = "save_failed" => exit_code = 1 /\ out_file.state # "written"
    /\ status = "saved" =>
        exit_code = 0 /\ out_file = [state |-> "written", triples |-> Triples(g)]
    /\ (pc = "exit") = (exit_code # -1)
    /\ exit_code = 0 => status = "saved"

\* a run that failed to load
C7_Witness == status = "load_failed" /\ pc = "exit"

---------------------------------------------------------------------------
(* C10: after a successful load the pass never fails: reading the see-also *)
(* object of a visited subject never raises, every subject the generator   *)
(* can still yield has a see-also triple, the visits made and the visits   *)
(* left never exceed the see-also triples loaded (the pass is finite), and *)
(* a run that loaded ends in the write or in its failure.                  *)
C10_NoClassFailure ==
    /\ status # "stop_iteration"
    /\ pc = "loop" => \A t \in Yieldable : objects(g, t[1], RDFS_seeAlso) # <<>>
    /\ Len(log) + Cardinality(pending) <= Cardinality(subjects(loaded, RDFS_seeAlso))
    /\ (pc = "exit" /\ parsed) => status \in {"saved", "save_failed"}

\* the loop visits a class again after it removed one of its see-also triples
C10_Witness ==
    /\ pc = "graft_def"
    /\ \E i \in 1..Len(log) - 1 : log[i].cls = cls /\ log[i].processed
    /\ Len(objects(g, cls, RDFS_seeAlso)) < Len(LoadedSeeAlso(cls))

---------------------------------------------------------------------------
(* C3: in the written graph no processed class keeps its name comment, its  *)
(* definition comment or the see-also triple whose object was read for it,  *)
(* whatever kind of term that object is.                                    *)
C3_Cleanup ==
    Saved =>
        \A k \in 1..Len(log) :
            log[k].processed =>
                /\ <<log[k].cls, RDFS_comment, log[k].name>> \notin out_file.triples
                /\ <<log[k].cls, RDFS_comment, log[k].def>> \notin out_file.triples
                /\ <<log[k].cls, RDFS_seeAlso, log[k].raw>> \notin out_file.triples

---------------------------------------------------------------------------
(* C4, as stated: every graft call adds exactly six new triples, the plain  *)
(* triple and the five triples of a node the graph did not hold, and        *)
(* removes none.                                                            *)
Grafting == pc \in {"graft_def", "graft_syn"}
GraftProp == IF pc = "graft_def" THEN IAO_DEF ELSE HAS_SYN
GraftTarget == IF pc = "graft_def" THEN def_lit ELSE name_lit

C4_SixNewTriples ==
    [][Grafting =>
        /\ Triples(g) \subseteq Triples(g')
        /\ Cardinality(Triples(g') \ Triples(g)) = 6
        /\ \E a \in Nodes(g') \ Nodes(g) :
            Triples(g') \ Triples(g) =
                {<<cls, GraftProp, GraftTarget>>}
                    \cup AxiomTriples(a, cls, GraftProp, GraftTarget, xref_lit)]_vars

(* C4, amended: every graft call leaves the graph as it was plus the plain  *)
(* triple and the five triples of one node the graph did not hold; six      *)
(* triples are new when the plain triple was absent, five when the graph    *)
(* held it already.                                                         *)
C4_GraftComplete ==
    [][Grafting =>
        /\ \E a \in Nodes(g') \ Nodes(g) :
            /\ a.kind = "bnode"
            /\ Triples(g') =
                Triples(g) \cup {<<cls, GraftProp, GraftTarget>>}
                    \cup AxiomTriples(a, cls, GraftProp, GraftTarget, xref_lit)
        /\ Cardinality(Triples(g') \ Triples(g)) =
                IF <<cls, GraftProp, GraftTarget>> \in Triples(g) THEN 5 ELSE 6]_vars

\* the definition was grafted on a class that already had the plain triple
C4_Witness ==
    /\ pc = "graft_syn"
    /\ <<cls, IAO_DEF, def_lit>> \in Triples(grafted)
    /\ Cardinality(Triples(g) \ Triples(grafted)) = 5

---------------------------------------------------------------------------
(* C5, as stated: the graph is mutated for a class only when the class was  *)
(* read with exactly two comments.                                          *)
Rewriting == pc \in {"graft_def", "graft_syn", "cleanup"}

C5_ExactlyTwo ==
    [][(pc # "parse" /\ g' # g) => (Rewriting /\ Len(coms) = 2)]_vars

(* C5, amended: the graph is mutated for a class only when the class was    *)
(* read with at least two comments; a class read with no comment or one is  *)
(* skipped, the graph and the count left as they are.                       *)
C5_AtLeastTwo ==
    [][/\ (pc # "parse" /\ g' # g) => (Rewriting /\ Len(coms) >= 2)
       /\ (pc = "loop" /\ pc' = "graft_def") =>
            (coms' = objects(g, cls', RDFS_comment) /\ Len(coms') >= 2)
       /\ (pc = "loop" /\ pc' = "loop") =>
            /\ Len(objects(g, cls', RDFS_comment)) < 2
            /\ g' = g
            /\ processed_count' = processed_count]_vars

\* a class read with three comments is being rewritten
C5_Witness == pc = "cleanup" /\ Len(coms) = 3 /\ g # loaded

---------------------------------------------------------------------------
(* C8: no subject is visited twice in one run, and the processed count is   *)
(* the number of distinct subjects loaded with a see-also triple and at     *)
(* least two comments.                                                      *)
C8_VisitedOnce ==
    /\ \A i, j \in 1..Len(log) : log[i].cls = log[j].cls => i = j
    /\ LoopDone =>
        processed_count =
            Cardinality({c \in LoadedSubjects :
                LoadedSeeAlso(c) # <<>> /\ Len(LoadedComments(c)) >= 2})

---------------------------------------------------------------------------
(* C9: of a processed class only the name comment, the definition comment   *)
(* and the see-also triple read at its visit are removed: every other       *)
(* loaded triple is in the written graph.                                   *)
FirstVisit(c) == CHOOSE k \in 1..Len(log) :
                    /\ log[k].cls = c
                    /\ \A j \in 1..Len(log) : log[j].cls = c => k <= j
Visited == {log[k].cls : k \in 1..Len(log)}
RemovedOf(c) ==
    IF log[FirstVisit(c)].processed
    THEN {<<c, RDFS_comment, log[FirstVisit(c)].name>>,
          <<c, RDFS_comment, log[FirstVisit(c)].def>>,
          <<c, RDFS_seeAlso, log[FirstVisit(c)].raw>>}
    ELSE {}

C9_Frame ==
    Saved =>
        (Triples(loaded) \ UNION {RemovedOf(c) : c \in Visited})
            \subseteq out_file.triples

====
